---- MODULE Spec2Model ----
(***************************************************************************)
(* Model of ecu_diagnostics: the dynamic diagnostic session                *)
(* (src/src/dynamic_diag.rs) and the UDS protocol glue (src/src/uds/mod.rs).*)
(*                                                                         *)
(* Spec    : DynamicDiagSession::new_over_iso_tp, stepped at every call    *)
(*           into a collaborator (hardware, KWP2000 server, UDS server),   *)
(*           followed by the protocol-agnostic operations of the session.  *)
(* SpecUds : one UDSProtocol value and the calls that read or change its   *)
(*           session-mode registry, for every bounded request payload.     *)
(* SpecResp: UDSProtocol::process_ecu_response applied to every bounded    *)
(*           response.                                                     *)
(* SpecNrc : the EcuNRC answers for UdsErrorByte::from(b), for every byte. *)
(***************************************************************************)
EXTENDS Integers, Sequences, FiniteSets, TLC

VARIABLES
    pc,              \* position inside new_over_iso_tp / "done" once it returned
    last_err,        \* Option<DiagError>: <<>> while unassigned, <<e>> once set
    iso_tp_channel,  \* the local channel binding: <<c>>, or <<>> when moved out
    nchan,           \* number of channels the hardware has created so far
    kwp,             \* the local Kwp2000DiagnosticServer binding: <<server>> or <<>>
    uds,             \* the local UdsDiagnosticServer binding: <<server>> or <<>>
    ret,             \* <<>> while running, <<r>> once new_over_iso_tp returned r
    session,         \* DynamicDiagSession.session: <<variant>> once constructed
    log,             \* every call made into a collaborator, in order
    op_ret,          \* result of the last protocol-agnostic operation
    nops,            \* number of protocol-agnostic operations called
    session_modes,   \* UDSProtocol.session_modes
    uds_call,        \* the last call on the UDSProtocol value and its argument
    payload,         \* the request payload handed to process_req_payload
    r,               \* the response handed to process_ecu_response
    response,        \* <<>> before process_ecu_response ran, <<its result>> after
    nrc_byte,        \* the error byte an ECU reported
    nrc              \* <<>> before classification, <<the EcuNRC answers>> after

negVars == <<pc, last_err, iso_tp_channel, nchan, kwp, uds, ret, session, log, op_ret, nops>>
udsVars == <<session_modes, uds_call, payload>>
respVars == <<r, response>>
nrcVars == <<nrc_byte, nrc>>
vars == <<pc, last_err, iso_tp_channel, nchan, kwp, uds, ret, session, log, op_ret, nops,
          session_modes, uds_call, payload, r, response, nrc_byte, nrc>>

(***************************************************************************)
(* Bounds                                                                  *)
(***************************************************************************)
\* protocol-agnostic operations called on one session
MaxOps == 2
\* longest request payload / response byte sequence
MaxLen == 3

(***************************************************************************)
(* DiagError and DiagServerResult                                          *)
(***************************************************************************)
NotSupported == "NotSupported"
\* the errors a collaborator may report; NotSupported is one of them
DiagErrors == {NotSupported, "HardwareError", "EcuError"}

OkRes == [ok |-> TRUE, err |-> "none"]
ErrRes(e) == [ok |-> FALSE, err |-> e]
\* every outcome of a call returning DiagServerResult<()>
CallResults == {OkRes} \cup {ErrRes(e) : e \in DiagErrors}

None == <<>>
Some(x) == <<x>>
unwrap(o) == o[1]

\* one entry of the call log
\* (by: the function making the call; op: the call; chan: the channel it runs on)
Event(by, op, chan, res) == [by |-> by, op |-> op, chan |-> chan, ok |-> res.ok, err |-> res.err]

\* values returned by new_over_iso_tp
RetOk(variant) == [ok |-> TRUE, session |-> variant, err |-> "none"]
RetErr(e) == [ok |-> FALSE, session |-> "none", err |-> e]
RetPanic == [ok |-> FALSE, session |-> "none", err |-> "panic"]

\* DynamicSessionType::Kwp(server) / DynamicSessionType::Uds(server)
DynamicSessionType(variant, server) == [tag |-> variant, chan |-> server.chan]

\* the calls new_over_iso_tp makes besides the mode switches below
CreateChannelCall == "Hardware::create_iso_tp_channel"
KwpNewCall == "Kwp2000DiagnosticServer::new_over_iso_tp"
UdsNewCall == "UdsDiagnosticServer::new_over_iso_tp"

\* the concrete call each operation delegates to, per held variant
ExtendedCall(tag) ==
    IF tag = "Kwp" THEN "kwp2000::set_diagnostic_session_mode(ExtendedDiagnostics)"
                   ELSE "uds::set_extended_mode"
DefaultCall(tag) ==
    IF tag = "Kwp" THEN "kwp2000::set_diagnostic_session_mode(Normal)"
                   ELSE "uds::set_default_mode"
ReadDtcCall(tag) ==
    IF tag = "Kwp" THEN "kwp2000::read_stored_dtcs(DTCRange::All)"
                   ELSE "uds::get_dtcs_by_status_mask(0xFF)"
ClearDtcCall(tag) ==
    IF tag = "Kwp" THEN "kwp2000::clear_dtc(ClearDTCRange::AllDTCs)"
                   ELSE "uds::clear_diagnostic_information(0x00FFFFFF)"

(***************************************************************************)
(* DynamicDiagSession::new_over_iso_tp                                     *)
(***************************************************************************)
\* line 100: Err(last_err.unwrap())
ReturnLastErr(le) == IF le = None THEN RetPanic ELSE RetErr(unwrap(le))

negInit ==
    /\ pc = "create_channel_1"
    /\ last_err = None
    /\ iso_tp_channel = None
    /\ nchan = 0
    /\ kwp = None
    /\ uds = None
    /\ ret = None
    /\ session = None
    /\ log = <<>>
    /\ op_ret = None
    /\ nops = 0

\* CreateFirstChannel with the failure recorded in last_err like a protocol
\* failure instead of being returned by `?`
CreateFirstChannel_Recorded ==
    /\ pc = "create_channel_1"
    /\ \E res \in CallResults :
        /\ log' = Append(log, Event("new_over_iso_tp", CreateChannelCall, IF res.ok THEN nchan + 1 ELSE 0, res))
        /\ IF res.ok
           THEN /\ iso_tp_channel' = Some(nchan + 1)
                /\ nchan' = nchan + 1
                /\ pc' = "kwp_new"
                /\ last_err' = last_err
           ELSE /\ last_err' = Some(res.err)
                /\ pc' = "create_channel_2"
                /\ UNCHANGED <<iso_tp_channel, nchan>>
    /\ UNCHANGED <<ret, kwp, uds, session, op_ret, nops, udsVars, respVars, nrcVars>>

\* line 49: Hardware::create_iso_tp_channel(hw_device.clone())?
CreateFirstChannel ==
    /\ pc = "create_channel_1"
    /\ \E res \in CallResults :
        /\ log' = Append(log, Event("new_over_iso_tp", CreateChannelCall, IF res.ok THEN nchan + 1 ELSE 0, res))
        /\ IF res.ok
           THEN /\ iso_tp_channel' = Some(nchan + 1)
                /\ nchan' = nchan + 1
                /\ pc' = "kwp_new"
                /\ ret' = ret
           ELSE /\ ret' = Some(RetErr(res.err))
                /\ pc' = "done"
                /\ UNCHANGED <<iso_tp_channel, nchan>>
    /\ UNCHANGED <<last_err, kwp, uds, session, op_ret, nops, udsVars, respVars, nrcVars>>

\* lines 52-60 and 73: Kwp2000DiagnosticServer::new_over_iso_tp(.., iso_tp_channel, ..)
KwpNew ==
    /\ pc = "kwp_new"
    /\ \E res \in CallResults :
        /\ log' = Append(log, Event("new_over_iso_tp", KwpNewCall, unwrap(iso_tp_channel), res))
        /\ iso_tp_channel' = None
        /\ IF res.ok
           THEN /\ kwp' = Some([chan |-> unwrap(iso_tp_channel)])
                /\ pc' = "kwp_probe"
                /\ last_err' = last_err
           ELSE /\ last_err' = Some(res.err)
                /\ pc' = "create_channel_2"
                /\ kwp' = kwp
    /\ UNCHANGED <<nchan, uds, ret, session, op_ret, nops, udsVars, respVars, nrcVars>>

\* KwpProbe without the else branch: a rejected probe records no error
KwpProbe_NoRecord ==
    /\ pc = "kwp_probe"
    /\ \E res \in CallResults :
        /\ log' = Append(log, Event("new_over_iso_tp", ExtendedCall("Kwp"), unwrap(kwp).chan, res))
        /\ IF res.ok
           THEN /\ pc' = "kwp_revert"
                /\ UNCHANGED <<last_err, kwp>>
           ELSE /\ last_err' = last_err
                /\ kwp' = None
                /\ pc' = "create_channel_2"
    /\ UNCHANGED <<iso_tp_channel, nchan, uds, ret, session, op_ret, nops, udsVars, respVars, nrcVars>>

\* lines 62, 69-71: kwp2000::set_diagnostic_session_mode(&mut kwp, ExtendedDiagnostics).is_ok()
KwpProbe ==
    /\ pc = "kwp_probe"
    /\ \E res \in CallResults :
        /\ log' = Append(log, Event("new_over_iso_tp", ExtendedCall("Kwp"), unwrap(kwp).chan, res))
        /\ IF res.ok
           THEN /\ pc' = "kwp_revert"
                /\ UNCHANGED <<last_err, kwp>>
           ELSE /\ last_err' = Some(NotSupported)
                /\ kwp' = None
                /\ pc' = "create_channel_2"
    /\ UNCHANGED <<iso_tp_channel, nchan, uds, ret, session, op_ret, nops, udsVars, respVars, nrcVars>>

\* KwpRevert with the result of the revert request checked by `?`
KwpRevert_Checked ==
    /\ pc = "kwp_revert"
    /\ \E res \in CallResults :
        /\ log' = Append(log, Event("new_over_iso_tp", DefaultCall("Kwp"), unwrap(kwp).chan, res))
        /\ IF res.ok
           THEN /\ session' = Some(DynamicSessionType("Kwp", unwrap(kwp)))
                /\ ret' = Some(RetOk("Kwp"))
           ELSE /\ session' = session
                /\ ret' = Some(RetErr(res.err))
    /\ kwp' = None
    /\ pc' = "done"
    /\ UNCHANGED <<last_err, iso_tp_channel, nchan, uds, op_ret, nops, udsVars, respVars, nrcVars>>

\* KwpRevert without the `return`: control falls through to the UDS attempt
KwpRevert_NoReturn ==
    /\ pc = "kwp_revert"
    /\ \E res \in CallResults :
        /\ log' = Append(log, Event("new_over_iso_tp", DefaultCall("Kwp"), unwrap(kwp).chan, res))
    /\ kwp' = None
    /\ pc' = "create_channel_2"
    /\ UNCHANGED <<last_err, iso_tp_channel, nchan, uds, ret, session, op_ret, nops,
                   udsVars, respVars, nrcVars>>

\* lines 65-68: kwp2000::set_diagnostic_session_mode(&mut kwp, Normal); return Ok(..Kwp(kwp))
KwpRevert ==
    /\ pc = "kwp_revert"
    /\ \E res \in CallResults :
        /\ log' = Append(log, Event("new_over_iso_tp", DefaultCall("Kwp"), unwrap(kwp).chan, res))
    /\ session' = Some(DynamicSessionType("Kwp", unwrap(kwp)))
    /\ ret' = Some(RetOk("Kwp"))
    /\ kwp' = None
    /\ pc' = "done"
    /\ UNCHANGED <<last_err, iso_tp_channel, nchan, uds, op_ret, nops, udsVars, respVars, nrcVars>>

\* CreateSecondChannel handing out the channel created first again
CreateSecondChannel_Reuse ==
    /\ pc = "create_channel_2"
    /\ \E res \in CallResults :
        /\ log' = Append(log, Event("new_over_iso_tp", CreateChannelCall, IF res.ok THEN nchan ELSE 0, res))
        /\ IF res.ok
           THEN /\ iso_tp_channel' = Some(nchan)
                /\ nchan' = nchan
                /\ pc' = "uds_new"
                /\ ret' = ret
           ELSE /\ ret' = Some(RetErr(res.err))
                /\ pc' = "done"
                /\ UNCHANGED <<iso_tp_channel, nchan>>
    /\ UNCHANGED <<last_err, kwp, uds, session, op_ret, nops, udsVars, respVars, nrcVars>>

\* CreateSecondChannel returning the recorded legacy error when it fails
CreateSecondChannel_ReturnsLastErr ==
    /\ pc = "create_channel_2"
    /\ \E res \in CallResults :
        /\ log' = Append(log, Event("new_over_iso_tp", CreateChannelCall, IF res.ok THEN nchan + 1 ELSE 0, res))
        /\ IF res.ok
           THEN /\ iso_tp_channel' = Some(nchan + 1)
                /\ nchan' = nchan + 1
                /\ pc' = "uds_new"
                /\ ret' = ret
           ELSE /\ ret' = Some(ReturnLastErr(last_err))
                /\ pc' = "done"
                /\ UNCHANGED <<iso_tp_channel, nchan>>
    /\ UNCHANGED <<last_err, kwp, uds, session, op_ret, nops, udsVars, respVars, nrcVars>>

\* line 76: iso_tp_channel = Hardware::create_iso_tp_channel(hw_device)?
CreateSecondChannel ==
    /\ pc = "create_channel_2"
    /\ \E res \in CallResults :
        /\ log' = Append(log, Event("new_over_iso_tp", CreateChannelCall, IF res.ok THEN nchan + 1 ELSE 0, res))
        /\ IF res.ok
           THEN /\ iso_tp_channel' = Some(nchan + 1)
                /\ nchan' = nchan + 1
                /\ pc' = "uds_new"
                /\ ret' = ret
           ELSE /\ ret' = Some(RetErr(res.err))
                /\ pc' = "done"
                /\ UNCHANGED <<iso_tp_channel, nchan>>
    /\ UNCHANGED <<last_err, kwp, uds, session, op_ret, nops, udsVars, respVars, nrcVars>>

\* UdsNew keeping the first recorded error: last_err is only set when empty
UdsNew_KeepFirstErr ==
    /\ pc = "uds_new"
    /\ \E res \in CallResults :
        /\ log' = Append(log, Event("new_over_iso_tp", UdsNewCall, unwrap(iso_tp_channel), res))
        /\ iso_tp_channel' = None
        /\ IF res.ok
           THEN /\ uds' = Some([chan |-> unwrap(iso_tp_channel)])
                /\ pc' = "uds_probe"
                /\ UNCHANGED <<last_err, ret>>
           ELSE /\ last_err' = IF last_err = None THEN Some(res.err) ELSE last_err
                /\ ret' = Some(ReturnLastErr(last_err'))
                /\ pc' = "done"
                /\ uds' = uds
    /\ UNCHANGED <<nchan, kwp, session, op_ret, nops, udsVars, respVars, nrcVars>>

\* UdsNew recording NotSupported for a construction failure, as the probe does
UdsNew_RecordsNotSupported ==
    /\ pc = "uds_new"
    /\ \E res \in CallResults :
        /\ log' = Append(log, Event("new_over_iso_tp", UdsNewCall, unwrap(iso_tp_channel), res))
        /\ iso_tp_channel' = None
        /\ IF res.ok
           THEN /\ uds' = Some([chan |-> unwrap(iso_tp_channel)])
                /\ pc' = "uds_probe"
                /\ UNCHANGED <<last_err, ret>>
           ELSE /\ last_err' = Some(NotSupported)
                /\ ret' = Some(ReturnLastErr(last_err'))
                /\ pc' = "done"
                /\ uds' = uds
    /\ UNCHANGED <<nchan, kwp, session, op_ret, nops, udsVars, respVars, nrcVars>>

\* lines 77-85, 98 and 100: UdsDiagnosticServer::new_over_iso_tp(.., iso_tp_channel, ..)
UdsNew ==
    /\ pc = "uds_new"
    /\ \E res \in CallResults :
        /\ log' = Append(log, Event("new_over_iso_tp", UdsNewCall, unwrap(iso_tp_channel), res))
        /\ iso_tp_channel' = None
        /\ IF res.ok
           THEN /\ uds' = Some([chan |-> unwrap(iso_tp_channel)])
                /\ pc' = "uds_probe"
                /\ UNCHANGED <<last_err, ret>>
           ELSE /\ last_err' = Some(res.err)
                /\ ret' = Some(ReturnLastErr(last_err'))
                /\ pc' = "done"
                /\ uds' = uds
    /\ UNCHANGED <<nchan, kwp, session, op_ret, nops, udsVars, respVars, nrcVars>>

\* UdsProbe recording the probe's own error instead of NotSupported
UdsProbe_RecordsProbeErr ==
    /\ pc = "uds_probe"
    /\ \E res \in CallResults :
        /\ log' = Append(log, Event("new_over_iso_tp", ExtendedCall("Uds"), unwrap(uds).chan, res))
        /\ IF res.ok
           THEN /\ pc' = "uds_revert"
                /\ UNCHANGED <<last_err, uds, ret>>
           ELSE /\ last_err' = Some(res.err)
                /\ uds' = None
                /\ ret' = Some(ReturnLastErr(last_err'))
                /\ pc' = "done"
    /\ UNCHANGED <<iso_tp_channel, nchan, kwp, session, op_ret, nops, udsVars, respVars, nrcVars>>

\* lines 87, 94-96 and 100: uds::set_extended_mode(&mut uds).is_ok()
UdsProbe ==
    /\ pc = "uds_probe"
    /\ \E res \in CallResults :
        /\ log' = Append(log, Event("new_over_iso_tp", ExtendedCall("Uds"), unwrap(uds).chan, res))
        /\ IF res.ok
           THEN /\ pc' = "uds_revert"
                /\ UNCHANGED <<last_err, uds, ret>>
           ELSE /\ last_err' = Some(NotSupported)
                /\ uds' = None
                /\ ret' = Some(ReturnLastErr(last_err'))
                /\ pc' = "done"
    /\ UNCHANGED <<iso_tp_channel, nchan, kwp, session, op_ret, nops, udsVars, respVars, nrcVars>>

\* UdsRevert with the result of set_default_mode checked by `?`
UdsRevert_Checked ==
    /\ pc = "uds_revert"
    /\ \E res \in CallResults :
        /\ log' = Append(log, Event("new_over_iso_tp", DefaultCall("Uds"), unwrap(uds).chan, res))
        /\ IF res.ok
           THEN /\ session' = Some(DynamicSessionType("Uds", unwrap(uds)))
                /\ ret' = Some(RetOk("Uds"))
           ELSE /\ session' = session
                /\ ret' = Some(RetErr(res.err))
    /\ uds' = None
    /\ pc' = "done"
    /\ UNCHANGED <<last_err, iso_tp_channel, nchan, kwp, op_ret, nops, udsVars, respVars, nrcVars>>

\* lines 90-93: uds::set_default_mode(&mut uds); return Ok(..Uds(uds))
UdsRevert ==
    /\ pc = "uds_revert"
    /\ \E res \in CallResults :
        /\ log' = Append(log, Event("new_over_iso_tp", DefaultCall("Uds"), unwrap(uds).chan, res))
    /\ session' = Some(DynamicSessionType("Uds", unwrap(uds)))
    /\ ret' = Some(RetOk("Uds"))
    /\ uds' = None
    /\ pc' = "done"
    /\ UNCHANGED <<last_err, iso_tp_channel, nchan, kwp, op_ret, nops, udsVars, respVars, nrcVars>>

(***************************************************************************)
(* DynamicDiagSession: accessors and protocol-agnostic operations          *)
(***************************************************************************)
\* what a concrete-protocol call returning DiagServerResult<Vec<DTC>> may yield
DtcLists == {<<>>, <<"P0100">>}
OkVal(v) == [ok |-> TRUE, err |-> "none", val |-> v]
ErrVal(e) == [ok |-> FALSE, err |-> e, val |-> <<>>]
UnitResults == {OkVal(<<>>)} \cup {ErrVal(e) : e \in DiagErrors}
DtcResults == {OkVal(d) : d \in DtcLists} \cup {ErrVal(e) : e \in DiagErrors}

\* a log entry for a call that returns a value: the entry keeps the value
OpEvent(by, op, chan, res) ==
    [by |-> by, op |-> op, chan |-> chan, ok |-> res.ok, err |-> res.err, val |-> res.val]

\* Delegate turning an error of the concrete call into Ok with no value
Delegate_SwallowsError(name, call, results) ==
    /\ pc = "done"
    /\ session # None
    /\ nops < MaxOps
    /\ \E res \in results :
        /\ log' = Append(log, OpEvent(name, call, unwrap(session).chan, res))
        /\ op_ret' = Some([op |-> name, ok |-> TRUE, err |-> "none", val |-> res.val])
    /\ nops' = nops + 1
    /\ UNCHANGED <<pc, last_err, iso_tp_channel, nchan, kwp, uds, ret, session, udsVars, respVars, nrcVars>>

\* the shape shared by the four delegating operations: one call on the held
\* server, whose result is the operation's result
Delegate(name, call, results) ==
    /\ pc = "done"
    /\ session # None
    /\ nops < MaxOps
    /\ \E res \in results :
        /\ log' = Append(log, OpEvent(name, call, unwrap(session).chan, res))
        /\ op_ret' = Some([op |-> name, ok |-> res.ok, err |-> res.err, val |-> res.val])
    /\ nops' = nops + 1
    /\ UNCHANGED <<pc, last_err, iso_tp_channel, nchan, kwp, uds, ret, session, udsVars, respVars, nrcVars>>

\* lines 122-131
enter_extended_diagnostic_mode ==
    Delegate("enter_extended_diagnostic_mode", ExtendedCall(unwrap(session).tag), UnitResults)

\* lines 134-143
enter_default_diagnostic_mode ==
    Delegate("enter_default_diagnostic_mode", DefaultCall(unwrap(session).tag), UnitResults)

\* lines 146-155
read_all_dtcs ==
    Delegate("read_all_dtcs", ReadDtcCall(unwrap(session).tag), DtcResults)

\* lines 158-167
clear_all_dtcs ==
    Delegate("clear_all_dtcs", ClearDtcCall(unwrap(session).tag), UnitResults)

\* AsSession yielding the held server whatever variant is asked for
AsSession_AnyVariant(s, variant) == Some(s.chan)

\* lines 104-119: Some(server) when the held variant is the asked one, else None
AsSession(s, variant) == IF s.tag = variant THEN Some(s.chan) ELSE None

Accessor(name, variant) ==
    /\ pc = "done"
    /\ session # None
    /\ nops < MaxOps
    /\ op_ret' = Some([op |-> name, ok |-> TRUE, err |-> "none",
                       val |-> AsSession(unwrap(session), variant)])
    /\ nops' = nops + 1
    /\ UNCHANGED <<pc, last_err, iso_tp_channel, nchan, kwp, uds, ret, session, log, udsVars, respVars, nrcVars>>

\* lines 104-110
as_kwp_session == Accessor("as_kwp_session", "Kwp")

\* lines 113-119
as_uds_session == Accessor("as_uds_session", "Uds")

negNext ==
    \/ CreateFirstChannel
    \/ KwpNew
    \/ KwpProbe
    \/ KwpRevert
    \/ CreateSecondChannel
    \/ UdsNew
    \/ UdsProbe
    \/ UdsRevert
    \/ enter_extended_diagnostic_mode
    \/ enter_default_diagnostic_mode
    \/ read_all_dtcs
    \/ clear_all_dtcs
    \/ as_kwp_session
    \/ as_uds_session

(***************************************************************************)
(* auto_uds: UdsError and UdsErrorByte = ByteWrapper<UdsError>             *)
(***************************************************************************)
Standard(e) == [tag |-> "Standard", e |-> e]
NonStandard(b) == [tag |-> "NonStandard", b |-> b]

\* the negative response codes of ISO 14229 that UdsError names
UdsErrorCodes ==
    (16 :> "GeneralReject") @@ (17 :> "ServiceNotSupported") @@
    (18 :> "SubFunctionNotSupported") @@ (19 :> "IncorrectMessageLengthOrInvalidFormat") @@
    (20 :> "ResponseTooLong") @@ (33 :> "BusyRepeatRequest") @@
    (34 :> "ConditionsNotCorrect") @@ (36 :> "RequestSequenceError") @@
    (37 :> "NoResponseFromSubnetComponent") @@
    (38 :> "FailurePreventsExecutionOfRequestedAction") @@
    (49 :> "RequestOutOfRange") @@ (51 :> "SecurityAccessDenied") @@
    (53 :> "InvalidKey") @@ (54 :> "ExceedNumberOfAttempts") @@
    (55 :> "RequiredTimeDelayNotExpired") @@ (112 :> "UploadDownloadNotAccepted") @@
    (113 :> "TransferDataSuspended") @@ (114 :> "GeneralProgrammingFailure") @@
    (115 :> "WrongBlockSequenceCounter") @@
    (120 :> "RequestCorrectlyReceivedResponsePending") @@
    (126 :> "SubFunctionNotSupportedInActiveSession") @@
    (127 :> "ServiceNotSupportedInActiveSession")

\* UdsErrorByte::from(b)
UdsErrorByteFrom(b) ==
    IF b \in DOMAIN UdsErrorCodes THEN Standard(UdsErrorCodes[b]) ELSE NonStandard(b)

(***************************************************************************)
(* impl EcuNRC for UdsErrorByte                                            *)
(***************************************************************************)
\* is_ecu_busy comparing against the code is_repeat_request tests
is_ecu_busy_WrongCode(self) ==
    IF self.tag = "Standard"
    THEN self.e = "BusyRepeatRequest"
    ELSE FALSE

\* lines 38-44
is_ecu_busy(self) ==
    IF self.tag = "Standard"
    THEN self.e = "RequestCorrectlyReceivedResponsePending"
    ELSE FALSE

\* lines 46-52
is_wrong_diag_mode(self) ==
    IF self.tag = "Standard"
    THEN self.e = "ServiceNotSupportedInActiveSession"
    ELSE FALSE

\* lines 54-60
is_repeat_request(self) ==
    IF self.tag = "Standard"
    THEN self.e = "BusyRepeatRequest"
    ELSE FALSE

(***************************************************************************)
(* UDSProtocol                                                             *)
(***************************************************************************)
Byte == 0..255
\* the bytes request payloads and responses are built from
ByteSample == {\H01, \H03, \H10, \H22, \H78, \H7E, \H7F}
ByteSeqs == UNION {[1..n -> ByteSample] : n \in 0..MaxLen}

DiagSessionMode(id, tp_require, name) == [id |-> id, tp_require |-> tp_require, name |-> name]

\* lines 71-80: UDSProtocol::default()
default ==
    (\H01 :> DiagSessionMode(\H01, FALSE, "Default")) @@
    (\H02 :> DiagSessionMode(\H02, TRUE, "Programming")) @@
    (\H03 :> DiagSessionMode(\H03, TRUE, "Extended")) @@
    (\H04 :> DiagSessionMode(\H04, TRUE, "SafetySystem"))

\* HashMap::insert(k, v): the entry for k becomes v, every other entry stays
HashMapInsert(map, k, v) ==
    [x \in DOMAIN map \cup {k} |-> IF x = k THEN v ELSE map[x]]

\* RegisterSessionType as entry(id).or_insert(session): an existing entry stays
RegisterSessionType_KeepExisting(modes, mode) ==
    IF mode.id \in DOMAIN modes THEN modes ELSE HashMapInsert(modes, mode.id, mode)

\* lines 122-124: self.session_modes.insert(session.id, session)
RegisterSessionType(modes, mode) == HashMapInsert(modes, mode.id, mode)

\* lines 110-116
process_ecu_response(rsp) ==
    IF Len(rsp) < 1
    THEN [kind |-> "Panic"]                       \* r[0] out of bounds
    ELSE IF rsp[1] = \H7F
         THEN IF Len(rsp) < 3
              THEN [kind |-> "Panic"]             \* r[2] out of bounds
              ELSE [kind |-> "Err", sid |-> rsp[3], nrc |-> UdsErrorByteFrom(rsp[3])]
         ELSE [kind |-> "Ok", bytes |-> rsp]

\* u8 -> UDSSessionType::Default.into()
UDSSessionTypeDefault == \H01

\* get_basic_session_mode looking up the Extended session id
get_basic_session_mode_WrongId(modes) ==
    IF \H03 \in DOMAIN modes THEN Some(modes[\H03]) ELSE None

\* lines 84-86: self.session_modes.get(&UDSSessionType::Default.into()).cloned()
get_basic_session_mode(modes) ==
    IF UDSSessionTypeDefault \in DOMAIN modes THEN Some(modes[UDSSessionTypeDefault]) ELSE None

\* lines 118-120: self.session_modes.clone()
get_diagnostic_session_list(modes) == modes

\* format!("{:02X?}", b): two upper-case hex digits, zero padded
HexDigits == <<"0", "1", "2", "3", "4", "5", "6", "7", "8", "9", "A", "B", "C", "D", "E", "F">>
FormatHex02(b) == HexDigits[(b \div 16) + 1] \o HexDigits[(b % 16) + 1]

\* process_req_payload with the synthesized mode not requiring tester present
process_req_payload_UnknownNoTp(modes, p) ==
    IF Len(p) < 1
    THEN [kind |-> "Panic"]
    ELSE IF p[1] = \H10
         THEN IF Len(p) < 2
              THEN [kind |-> "Panic"]
              ELSE [kind |-> "SetSessionMode",
                    mode |-> IF p[2] \in DOMAIN modes
                             THEN modes[p[2]]
                             ELSE DiagSessionMode(p[2], FALSE,
                                      "Unknown (0x" \o FormatHex02(p[2]) \o ")")]
         ELSE [kind |-> "Other", sid |-> p[1], data |-> Tail(p)]

\* lines 92-104
process_req_payload(modes, p) ==
    IF Len(p) < 1
    THEN [kind |-> "Panic"]                       \* payload[0] out of bounds
    ELSE IF p[1] = \H10
         THEN IF Len(p) < 2
              THEN [kind |-> "Panic"]             \* payload[1] out of bounds
              ELSE [kind |-> "SetSessionMode",
                    mode |-> IF p[2] \in DOMAIN modes
                             THEN modes[p[2]]
                             ELSE DiagSessionMode(p[2], TRUE,
                                      "Unknown (0x" \o FormatHex02(p[2]) \o ")")]
         ELSE [kind |-> "Other", sid |-> p[1], data |-> Tail(p)]

\* the bytes request payloads are built from, and the payloads
PayloadBytes == {\H01, \H10, \H22, \H7E}
PayloadSeqs == UNION {[1..n -> PayloadBytes] : n \in 0..MaxLen}

\* the session modes callers register
RegIds == {\H01, \H03, \H7D, \H7E}
ModeInputs == {DiagSessionMode(id, tp, "Custom") : id \in RegIds, tp \in BOOLEAN}

udsInit ==
    /\ session_modes = default
    /\ uds_call = [op |-> "default"]
    /\ payload = <<>>

\* SpecUds starts from UDSProtocol::default() and any bounded request payload
udsReqInit ==
    /\ session_modes = default
    /\ uds_call = [op |-> "default"]
    /\ payload \in PayloadSeqs

\* lines 122-124
register_session_type ==
    \E m \in ModeInputs :
        /\ session_modes' = RegisterSessionType(session_modes, m)
        /\ uds_call' = [op |-> "register_session_type", session |-> m]
        /\ UNCHANGED <<payload, negVars, respVars, nrcVars>>

\* lines 84-86
GetBasicSessionMode ==
    /\ uds_call' = [op |-> "get_basic_session_mode", ret |-> get_basic_session_mode(session_modes)]
    /\ UNCHANGED <<session_modes, payload, negVars, respVars, nrcVars>>

\* ProcessReqPayload caching the mode it resolved in the registry
ProcessReqPayload_CachesMode ==
    /\ uds_call' = [op |-> "process_req_payload", payload |-> payload,
                    ret |-> process_req_payload(session_modes, payload)]
    /\ session_modes' = IF uds_call'.ret.kind = "SetSessionMode"
                        THEN HashMapInsert(session_modes, uds_call'.ret.mode.id, uds_call'.ret.mode)
                        ELSE session_modes
    /\ UNCHANGED <<payload, negVars, respVars, nrcVars>>

\* lines 92-104, applied to the request payload
ProcessReqPayload ==
    /\ uds_call' = [op |-> "process_req_payload", payload |-> payload,
                    ret |-> process_req_payload(session_modes, payload)]
    /\ UNCHANGED <<session_modes, payload, negVars, respVars, nrcVars>>

\* lines 118-120
GetDiagnosticSessionList ==
    /\ uds_call' = [op |-> "get_diagnostic_session_list",
                    ret |-> get_diagnostic_session_list(session_modes)]
    /\ UNCHANGED <<session_modes, payload, negVars, respVars, nrcVars>>

udsNext ==
    \/ register_session_type
    \/ GetBasicSessionMode
    \/ ProcessReqPayload
    \/ GetDiagnosticSessionList

\* lines 110-116, applied to the response r
ProcessEcuResponse ==
    /\ response = None
    /\ response' = Some(process_ecu_response(r))
    /\ UNCHANGED <<r, negVars, udsVars, nrcVars>>

\* lines 30-61, applied to UdsErrorByte::from(nrc_byte)
ClassifyNrc ==
    /\ nrc = None
    /\ nrc' = Some([code |-> UdsErrorByteFrom(nrc_byte),
                    is_ecu_busy |-> is_ecu_busy(UdsErrorByteFrom(nrc_byte)),
                    is_wrong_diag_mode |-> is_wrong_diag_mode(UdsErrorByteFrom(nrc_byte)),
                    is_repeat_request |-> is_repeat_request(UdsErrorByteFrom(nrc_byte))])
    /\ UNCHANGED <<nrc_byte, negVars, udsVars, respVars>>

(***************************************************************************)
(* Specifications                                                          *)
(***************************************************************************)
respIdle == r = <<>> /\ response = None
nrcIdle == nrc_byte = 0 /\ nrc = None

Init == negInit /\ udsInit /\ respIdle /\ nrcIdle

Next == negNext

Spec == Init /\ [][Next]_vars

udsSpecInit == negInit /\ udsReqInit /\ respIdle /\ nrcIdle

SpecUds == udsSpecInit /\ [][udsNext]_vars

respInit == negInit /\ udsInit /\ nrcIdle /\ r \in ByteSeqs /\ response = None

SpecResp == respInit /\ [][ProcessEcuResponse]_vars

nrcInit == negInit /\ udsInit /\ respIdle /\ nrc_byte \in Byte /\ nrc = None

SpecNrc == nrcInit /\ [][ClassifyNrc]_vars

(***************************************************************************)
(* Properties of new_over_iso_tp (specification Spec)                      *)
(***************************************************************************)
\* new_over_iso_tp made the call op and it returned Ok (ok = TRUE) or Err
NegCall(op, ok) ==
    \E i \in 1..Len(log) : log[i].by = "new_over_iso_tp" /\ log[i].op = op /\ log[i].ok = ok
NegCalled(op) == NegCall(op, TRUE) \/ NegCall(op, FALSE)
\* the error the failed call op returned to new_over_iso_tp
NegErrOf(op) ==
    CHOOSE e \in DiagErrors :
        \E i \in 1..Len(log) :
            log[i].by = "new_over_iso_tp" /\ log[i].op = op /\ ~log[i].ok /\ log[i].err = e

Returned == pc = "done" /\ ret # None
FirstChannelCreated == Len(log) >= 1 /\ log[1].op = CreateChannelCall /\ log[1].ok
FirstChannelFailed == Len(log) >= 1 /\ log[1].op = CreateChannelCall /\ ~log[1].ok
KwpNewFailed == NegCall(KwpNewCall, FALSE)
KwpProbeOk == NegCall(ExtendedCall("Kwp"), TRUE)
KwpProbeFailed == NegCall(ExtendedCall("Kwp"), FALSE)
UdsNewFailed == NegCall(UdsNewCall, FALSE)
UdsProbeOk == NegCall(ExtendedCall("Uds"), TRUE)
UdsProbeFailed == NegCall(ExtendedCall("Uds"), FALSE)
UdsAttempted ==
    NegCalled(UdsNewCall) \/ NegCalled(ExtendedCall("Uds")) \/ NegCalled(DefaultCall("Uds"))
LegacyFailed == KwpNewFailed \/ KwpProbeFailed
ModernFailed == UdsNewFailed \/ UdsProbeFailed
\* the error each failed attempt left in last_err
LegacyErr == IF KwpProbeFailed THEN NotSupported ELSE NegErrOf(KwpNewCall)
ModernErr == IF UdsProbeFailed THEN NotSupported ELSE NegErrOf(UdsNewCall)

\* C1: once the first channel is created, the KWP2000 server is constructed
\* and its extended-mode probe succeeds, no UDS server is ever constructed or
\* probed, and the session new_over_iso_tp returns holds the Kwp variant.
C1_LegacyCommits ==
    (FirstChannelCreated /\ NegCall(KwpNewCall, TRUE) /\ KwpProbeOk) =>
        /\ ~UdsAttempted
        /\ uds = None
        /\ pc \in {"kwp_revert", "done"}
        /\ Returned => /\ ret = Some(RetOk("Kwp"))
                       /\ session # None
                       /\ unwrap(session).tag = "Kwp"

C1_Witness ==
    /\ Returned
    /\ FirstChannelCreated /\ NegCall(KwpNewCall, TRUE) /\ KwpProbeOk
    /\ ret = Some(RetOk("Kwp"))

\* C2: when the legacy attempt does not commit (construction or probe failed)
\* and the UDS extended-mode probe succeeds, new_over_iso_tp returns Ok with
\* a session holding the Uds variant.
C2_ModernCommits ==
    (Returned /\ LegacyFailed /\ UdsProbeOk) =>
        /\ ret = Some(RetOk("Uds"))
        /\ session # None
        /\ unwrap(session).tag = "Uds"

C2_Witness ==
    /\ Returned /\ KwpProbeFailed /\ UdsProbeOk
    /\ NegCall(DefaultCall("Uds"), FALSE)
    /\ ret = Some(RetOk("Uds"))

BothFailed == Returned /\ LegacyFailed /\ ModernFailed

\* C3 as stated: when both attempts fail the returned error is the modern
\* attempt's error if that attempt reached its probe, and the legacy
\* attempt's error otherwise.
C3_AsStated ==
    BothFailed =>
        ret = Some(RetErr(IF NegCalled(ExtendedCall("Uds")) THEN ModernErr ELSE LegacyErr))

\* C3 (amended): when both attempts fail the returned error is the last one
\* recorded, which is always the modern attempt's: NotSupported if the UDS
\* server reached its probe, the UDS construction error otherwise.
C3_LastErrorIsModern ==
    BothFailed =>
        /\ last_err = Some(ModernErr)
        /\ ret = Some(RetErr(ModernErr))

C3_Witness ==
    /\ BothFailed
    /\ KwpProbeFailed /\ UdsNewFailed
    /\ NegErrOf(UdsNewCall) # NotSupported
    /\ ret = Some(RetErr(NegErrOf(UdsNewCall)))

\* C4: when both servers fail at construction, new_over_iso_tp fails with the
\* UDS construction error; a differing KWP2000 construction error is not
\* returned.
C4_BothConstructionsFail ==
    (Returned /\ KwpNewFailed /\ UdsNewFailed) =>
        /\ ~ret[1].ok
        /\ ret[1].err = NegErrOf(UdsNewCall)
        /\ NegErrOf(KwpNewCall) # NegErrOf(UdsNewCall) => ret[1].err # NegErrOf(KwpNewCall)

C4_Witness ==
    /\ Returned /\ KwpNewFailed /\ UdsNewFailed
    /\ NegErrOf(KwpNewCall) = "HardwareError"
    /\ NegErrOf(UdsNewCall) = "EcuError"
    /\ ret = Some(RetErr("EcuError"))

\* C5 as stated: when both attempts fail and at least one of them reached its
\* probe, new_over_iso_tp fails with NotSupported.
C5_AsStated ==
    (BothFailed /\ (KwpProbeFailed \/ UdsProbeFailed)) => ret = Some(RetErr(NotSupported))

\* C5 (amended): when both attempts fail and the UDS server reached its probe,
\* new_over_iso_tp fails with NotSupported; when only the KWP2000 probe was
\* reached and the UDS server failed at construction, it fails with the UDS
\* construction error.
C5_NotSupportedOnlyFromModernProbe ==
    /\ (Returned /\ LegacyFailed /\ UdsProbeFailed) => ret = Some(RetErr(NotSupported))
    /\ (Returned /\ KwpProbeFailed /\ UdsNewFailed) => ret = Some(RetErr(NegErrOf(UdsNewCall)))

C5_Witness ==
    /\ Returned /\ KwpNewFailed /\ UdsProbeFailed
    /\ NegErrOf(ExtendedCall("Uds")) # NotSupported
    /\ ret = Some(RetErr(NotSupported))

\* C6: when creating the first channel fails, new_over_iso_tp returns exactly
\* that error; no server is constructed or probed and no other channel is
\* created.
C6_FirstChannelFailureIsFatal ==
    FirstChannelFailed =>
        /\ pc = "done"
        /\ ret = Some(RetErr(log[1].err))
        /\ Len(log) = 1
        /\ nchan = 0
        /\ kwp = None /\ uds = None /\ session = None

C6_Witness ==
    /\ FirstChannelFailed
    /\ ret = Some(RetErr("HardwareError"))

(***************************************************************************)
(* Properties of process_ecu_response (specification SpecResp)             *)
(***************************************************************************)
\* a negative response frame: [0x7F, SID, NRC, ..]
IsNegativeFrame(bytes) == Len(bytes) >= 3 /\ bytes[1] = \H7F

\* C7: for every response with first byte 0x7F and at least three bytes,
\* process_ecu_response returns a failure carrying the second byte as the
\* service id and the classification of the third byte as the NRC.
C7_NegativeResponseDecoded ==
    (response # None /\ IsNegativeFrame(r)) =>
        /\ unwrap(response).kind = "Err"
        /\ unwrap(response).sid = r[2]
        /\ unwrap(response).nrc = UdsErrorByteFrom(r[3])

\* C8: for every response that is not a negative response frame (the empty
\* one and [0x7F], [0x7F, x] included), process_ecu_response returns success
\* with the bytes it was given, without aborting.
C8_OtherResponsesReturnedVerbatim ==
    (response # None /\ ~IsNegativeFrame(r)) =>
        unwrap(response) = [kind |-> "Ok", bytes |-> r]

(***************************************************************************)
(* Properties of impl EcuNRC for UdsErrorByte (specification SpecNrc)      *)
(***************************************************************************)
BoolToNat(b) == IF b THEN 1 ELSE 0

\* C9: for every error byte, is_ecu_busy holds exactly for the standard code
\* RequestCorrectlyReceivedResponsePending, is_wrong_diag_mode exactly for
\* ServiceNotSupportedInActiveSession, is_repeat_request exactly for
\* BusyRepeatRequest; non-standard bytes answer false to all three and at
\* most one of the three answers is true.
C9_NrcClassification ==
    nrc # None =>
        LET a == unwrap(nrc) IN
        /\ a.is_ecu_busy <=> a.code = Standard("RequestCorrectlyReceivedResponsePending")
        /\ a.is_wrong_diag_mode <=> a.code = Standard("ServiceNotSupportedInActiveSession")
        /\ a.is_repeat_request <=> a.code = Standard("BusyRepeatRequest")
        /\ a.code.tag = "NonStandard" =>
               ~a.is_ecu_busy /\ ~a.is_wrong_diag_mode /\ ~a.is_repeat_request
        /\ BoolToNat(a.is_ecu_busy) + BoolToNat(a.is_wrong_diag_mode)
               + BoolToNat(a.is_repeat_request) <= 1

C9_Witness ==
    /\ nrc # None
    /\ nrc_byte = \H78
    /\ unwrap(nrc).code = Standard("RequestCorrectlyReceivedResponsePending")
    /\ unwrap(nrc).is_ecu_busy
    /\ ~unwrap(nrc).is_wrong_diag_mode /\ ~unwrap(nrc).is_repeat_request

(***************************************************************************)
(* Properties of the session-mode registry (specification SpecUds)         *)
(***************************************************************************)
RegistrySize(modes) == Cardinality(DOMAIN modes)

\* C10: every register_session_type(m) leaves the entry for m.id equal to m;
\* the registry size is unchanged when m.id was registered before and grows
\* by exactly one when it was not, and every entry is keyed by its own id.
C10_RegisterUpserts ==
    [][\A m \in ModeInputs :
          (uds_call' = [op |-> "register_session_type", session |-> m]) =>
              /\ m.id \in DOMAIN session_modes'
              /\ session_modes'[m.id] = m
              /\ RegistrySize(session_modes') =
                     RegistrySize(session_modes) + (IF m.id \in DOMAIN session_modes THEN 0 ELSE 1)
              /\ \A k \in DOMAIN session_modes' : session_modes'[k].id = k]_vars

C10_Witness ==
    /\ uds_call = [op |-> "register_session_type", session |-> DiagSessionMode(\H01, TRUE, "Custom")]
    /\ session_modes[\H01] = DiagSessionMode(\H01, TRUE, "Custom")
    /\ \H7E \in DOMAIN session_modes
    /\ RegistrySize(session_modes) = 5

\* C11 as stated: after any registrations, get_basic_session_mode returns a
\* present mode whose tp_require flag is false.
C11_AsStated ==
    uds_call.op = "get_basic_session_mode" =>
        /\ uds_call.ret # None
        /\ ~unwrap(uds_call.ret).tp_require

\* C11 (amended): after any registrations, get_basic_session_mode returns a
\* present mode with id 0x01, the current registry entry for 0x01: the
\* built-in Default mode (tp_require false) or a mode a caller registered
\* under id 0x01; tp_require is true only for such a registered mode.
C11_BasicModePresent ==
    uds_call.op = "get_basic_session_mode" =>
        /\ uds_call.ret # None
        /\ \H01 \in DOMAIN session_modes
        /\ unwrap(uds_call.ret) = session_modes[\H01]
        /\ unwrap(uds_call.ret).id = \H01
        /\ \/ unwrap(uds_call.ret) = [id |-> \H01, tp_require |-> FALSE, name |-> "Default"]
           \/ unwrap(uds_call.ret) \in ModeInputs
        /\ unwrap(uds_call.ret).tp_require => unwrap(uds_call.ret) \in ModeInputs

C11_Witness ==
    /\ uds_call.op = "get_basic_session_mode"
    /\ uds_call.ret = Some([id |-> \H01, tp_require |-> TRUE, name |-> "Custom"])
    /\ \H7E \in DOMAIN session_modes

\* the two hex digits of each payload byte, written out
ExpectedHex == (\H01 :> "01") @@ (\H10 :> "10") @@ (\H22 :> "22") @@ (\H7E :> "7E")

\* C12: for every registry and every payload of at least two bytes, a payload
\* starting with 0x10 yields a set-session-mode action carrying the mode
\* registered for payload[1], or else a synthesized mode with that id,
\* tp_require = true and a name holding the two hex digits of the id; any
\* other payload yields a generic call with sid = payload[0] and the
\* remaining bytes, in order, as data.
C12_RequestInterpreted ==
    (uds_call.op = "process_req_payload" /\ Len(payload) >= 2) =>
        LET a == uds_call.ret IN
        IF payload[1] = \H10
        THEN /\ a.kind = "SetSessionMode"
             /\ IF payload[2] \in DOMAIN session_modes
                THEN a.mode = session_modes[payload[2]]
                ELSE /\ a.mode.id = payload[2]
                     /\ a.mode.tp_require
                     /\ a.mode.name = "Unknown (0x" \o ExpectedHex[payload[2]] \o ")"
        ELSE /\ a.kind = "Other"
             /\ a.sid = payload[1]
             /\ a.data = SubSeq(payload, 2, Len(payload))

C12_Witness ==
    /\ uds_call.op = "process_req_payload"
    /\ payload = <<\H10, \H7E>>
    /\ \H7E \notin DOMAIN session_modes
    /\ \H01 \in DOMAIN session_modes /\ session_modes[\H01].name = "Custom"
    /\ uds_call.ret = [kind |-> "SetSessionMode",
                       mode |-> [id |-> \H7E, tp_require |-> TRUE, name |-> "Unknown (0x7E)"]]

\* C17: the registry changes only in register_session_type steps; such a
\* step keeps every entry whose id differs from the registered mode's id and
\* removes no id; get_basic_session_mode, process_req_payload and
\* get_diagnostic_session_list leave the registry as it is, so the set of
\* registered ids never shrinks.
C17_RegistryFrame ==
    [][/\ uds_call'.op # "register_session_type" => session_modes' = session_modes
       /\ \A m \in ModeInputs :
              (uds_call' = [op |-> "register_session_type", session |-> m]) =>
                  \A k \in DOMAIN session_modes \ {m.id} :
                      k \in DOMAIN session_modes' /\ session_modes'[k] = session_modes[k]
       /\ DOMAIN session_modes \subseteq DOMAIN session_modes']_vars

C17_Witness ==
    /\ uds_call.op = "process_req_payload"
    /\ payload = <<\H10, \H22>>
    /\ uds_call.ret.kind = "SetSessionMode"
    /\ DOMAIN session_modes = {\H01, \H02, \H03, \H04, \H7E}
    /\ session_modes[\H03].name = "Custom"
    /\ session_modes[\H02] = [id |-> \H02, tp_require |-> TRUE, name |-> "Programming"]

\* C20: for every non-empty payload process_req_payload yields a diagnostic
\* action without aborting; a one-byte generic payload [sid] yields a generic
\* call with empty data.
C20_NoAbortOnNonEmptyPayload ==
    (uds_call.op = "process_req_payload" /\ Len(payload) >= 1) =>
        /\ uds_call.ret.kind \in {"SetSessionMode", "Other"}
        /\ (Len(payload) = 1 /\ payload[1] # \H10) =>
               uds_call.ret = [kind |-> "Other", sid |-> payload[1], data |-> <<>>]

(***************************************************************************)
(* Properties of the session and of the order of calls (specification Spec)*)
(***************************************************************************)
\* the calls new_over_iso_tp made, in order
NegLog == SelectSeq(log, LAMBDA e : e.by = "new_over_iso_tp")

DelegatingOps ==
    {"enter_extended_diagnostic_mode", "enter_default_diagnostic_mode",
     "read_all_dtcs", "clear_all_dtcs"}

\* C13: once a session exists, no operation or accessor call, successful or
\* not, changes its variant, which is the one new_over_iso_tp returned;
\* as_kwp_session yields a server exactly when the variant is Kwp,
\* as_uds_session exactly when it is Uds, so exactly one of them does.
C13_VariantFixed ==
    [][session # None =>
          /\ session' = session
          /\ unwrap(session).tag = unwrap(ret).session
          /\ unwrap(session).tag \in {"Kwp", "Uds"}
          /\ (AsSession(unwrap(session'), "Kwp") # None) # (AsSession(unwrap(session'), "Uds") # None)
          /\ (op_ret' # None /\ unwrap(op_ret').op = "as_kwp_session") =>
                 (unwrap(op_ret').val # None <=> unwrap(session).tag = "Kwp")
          /\ (op_ret' # None /\ unwrap(op_ret').op = "as_uds_session") =>
                 (unwrap(op_ret').val # None <=> unwrap(session).tag = "Uds")]_vars

C13_Witness ==
    /\ session # None /\ unwrap(session).tag = "Uds"
    /\ nops = 2
    /\ \E i \in 1..Len(log) : log[i].by = "clear_all_dtcs" /\ ~log[i].ok
    /\ op_ret # None
    /\ unwrap(op_ret).op = "as_kwp_session"
    /\ unwrap(op_ret).val = None

\* the concrete call the spec names for each operation and held variant
ExpectedCall(op, tag) ==
    IF op = "enter_extended_diagnostic_mode"
    THEN (IF tag = "Kwp" THEN "kwp2000::set_diagnostic_session_mode(ExtendedDiagnostics)"
                         ELSE "uds::set_extended_mode")
    ELSE IF op = "enter_default_diagnostic_mode"
    THEN (IF tag = "Kwp" THEN "kwp2000::set_diagnostic_session_mode(Normal)"
                         ELSE "uds::set_default_mode")
    ELSE IF op = "read_all_dtcs"
    THEN (IF tag = "Kwp" THEN "kwp2000::read_stored_dtcs(DTCRange::All)"
                         ELSE "uds::get_dtcs_by_status_mask(0xFF)")
    ELSE (IF tag = "Kwp" THEN "kwp2000::clear_dtc(ClearDTCRange::AllDTCs)"
                         ELSE "uds::clear_diagnostic_information(0x00FFFFFF)")

\* C14: every protocol-agnostic operation makes exactly one call, the held
\* variant's concrete operation on the held server, and returns that call's
\* result (value or error) unchanged; accessors make no call.
C14_OneDelegatedCall ==
    [][nops' = nops + 1 =>
          IF unwrap(op_ret').op \in DelegatingOps
          THEN /\ Len(log') = Len(log) + 1
               /\ SubSeq(log', 1, Len(log)) = log
               /\ LET ev == log'[Len(log')] IN
                  /\ ev.by = unwrap(op_ret').op
                  /\ ev.op = ExpectedCall(unwrap(op_ret').op, unwrap(session).tag)
                  /\ ev.chan = unwrap(session).chan
                  /\ unwrap(op_ret').ok = ev.ok
                  /\ unwrap(op_ret').err = ev.err
                  /\ unwrap(op_ret').val = ev.val
          ELSE log' = log]_vars

C14_Witness ==
    /\ session # None /\ unwrap(session).tag = "Uds"
    /\ nops = 1
    /\ op_ret = Some([op |-> "clear_all_dtcs", ok |-> FALSE, err |-> "EcuError", val |-> <<>>])
    /\ log[Len(log)].op = "uds::clear_diagnostic_information(0x00FFFFFF)"

RevertCalls == {DefaultCall("Kwp"), DefaultCall("Uds")}

\* C15: a revert-to-default request is made only right after the successful
\* probe of the same server; a successful negotiation ends with exactly one
\* such request, on the committed server, and returns that protocol's session
\* whatever the request yields.
C15_ProbeRevertReturn ==
    LET n == NegLog IN
    /\ \A i \in 1..Len(n) : \A t \in {"Kwp", "Uds"} :
           n[i].op = DefaultCall(t) =>
               /\ i > 1
               /\ n[i - 1].op = ExtendedCall(t) /\ n[i - 1].ok
               /\ n[i - 1].chan = n[i].chan
               /\ pc = "done" /\ ret = Some(RetOk(t))
               /\ i = Len(n)
    /\ (Returned /\ unwrap(ret).ok) =>
           /\ Len(n) >= 2
           /\ n[Len(n)].op = DefaultCall(unwrap(ret).session)
           /\ n[Len(n)].chan = unwrap(session).chan
           /\ Cardinality({i \in 1..Len(n) : n[i].op \in RevertCalls}) = 1

C15_Witness ==
    /\ Returned
    /\ ret = Some(RetOk("Kwp"))
    /\ NegCall(DefaultCall("Kwp"), FALSE)

ServerNewCalls == {KwpNewCall, UdsNewCall}
KwpCalls == {KwpNewCall, ExtendedCall("Kwp"), DefaultCall("Kwp")}

\* C16: no channel is handed to two servers, and the channel handed to the
\* UDS server was created after every call of the KWP2000 attempt and is not
\* the channel the KWP2000 server was given.
C16_FreshChannelPerAttempt ==
    LET n == NegLog IN
    /\ \A i, j \in 1..Len(n) :
           (i # j /\ n[i].op \in ServerNewCalls /\ n[j].op \in ServerNewCalls) =>
               n[i].chan # n[j].chan
    /\ \A j \in 1..Len(n) :
           n[j].op = UdsNewCall =>
               \E c \in 1..(j - 1) :
                   /\ n[c].op = CreateChannelCall /\ n[c].ok /\ n[c].chan = n[j].chan
                   /\ \A i \in 1..Len(n) :
                          n[i].op \in KwpCalls => (i < c /\ n[i].chan # n[j].chan)
    /\ session # None => unwrap(session).chan = nchan

C16_Witness ==
    /\ Returned /\ ret = Some(RetOk("Uds"))
    /\ KwpProbeFailed
    /\ unwrap(session).chan = 2

\* creating the second channel failed
SecondChannelFailed ==
    \E i \in 2..Len(NegLog) : NegLog[i].op = CreateChannelCall /\ ~NegLog[i].ok

\* C18: when the legacy attempt failed and creating the second channel
\* fails, new_over_iso_tp returns that channel error, whatever last_err
\* holds, and no UDS server is constructed or probed.
C18_SecondChannelFailureReturned ==
    \A i \in 2..Len(NegLog) :
        (NegLog[i].op = CreateChannelCall /\ ~NegLog[i].ok) =>
            /\ LegacyFailed
            /\ i = Len(NegLog)
            /\ pc = "done"
            /\ ret = Some(RetErr(NegLog[i].err))
            /\ ~UdsAttempted
            /\ uds = None /\ session = None /\ nchan = 1

C18_Witness ==
    /\ SecondChannelFailed
    /\ KwpProbeFailed
    /\ last_err = Some(NotSupported)
    /\ ret = Some(RetErr("HardwareError"))

\* new_over_iso_tp returned through line 100
ReachedFinalErr ==
    /\ Returned
    /\ Len(NegLog) >= 1
    /\ NegLog[Len(NegLog)].op \in {UdsNewCall, ExtendedCall("Uds")}
    /\ ~NegLog[Len(NegLog)].ok

\* C19: new_over_iso_tp returns either a session or an error, never both and
\* never by an abort; last_err is set once the legacy attempt has failed and
\* again by the modern failure branch, so at line 100 it is not empty, and
\* line 100 is reached only when neither protocol committed.
C19_FinalErrNeverEmpty ==
    /\ pc \in {"create_channel_2", "uds_new", "uds_probe", "uds_revert"} =>
           last_err # None /\ LegacyFailed
    /\ Returned =>
           /\ unwrap(ret) # RetPanic
           /\ unwrap(ret).ok <=> session # None
           /\ unwrap(ret).ok <=> unwrap(ret).err = "none"
           /\ ~unwrap(ret).ok => unwrap(ret).err \in DiagErrors
    /\ ReachedFinalErr =>
           /\ LegacyFailed /\ ModernFailed
           /\ last_err # None
           /\ ret = Some(RetErr(unwrap(last_err)))
           /\ session = None
           /\ ~NegCalled(DefaultCall("Kwp")) /\ ~NegCalled(DefaultCall("Uds"))

C19_Witness ==
    /\ ReachedFinalErr
    /\ KwpNewFailed /\ UdsProbeFailed
    /\ ret = Some(RetErr(NotSupported))

====
